---------------------------- MODULE Spec2Model ----------------------------
(***************************************************************************)
(* A model of the Ollama Model Manager client, src/src/App.vue: the theme  *)
(* switcher, the two asynchronous workflows fetchLocalModels and addModel, *)
(* the template's entry points with their disabled bindings, and the       *)
(* Gateway that answers the workflows' requests.                           *)
(*                                                                         *)
(* JavaScript strings are sequences of one-character strings, so that      *)
(* template literals are concatenations, truthiness is non-emptiness and   *)
(* toLowerCase/startsWith are computed character by character.             *)
(*                                                                         *)
(* An async function runs to its next await in one step.  A continuation   *)
(* that waits on the network is a step of its own (a task); the            *)
(* continuation of `await fetchLocalModels()` inside addModel is a         *)
(* microtask, which runs before any other task.                            *)
(***************************************************************************)
EXTENDS Integers, Sequences, FiniteSets, TLC

(***************************************************************************)
(* Bounds of the model.                                                    *)
(***************************************************************************)
\* The number of workflow invocations that can be outstanding at once.
MaxInst == 2
\* The longest model list the Gateway returns.
MaxModels == 2
\* How many entries of discoverableModels have their button clicked.
MaxDiscoverable == 1

(***************************************************************************)
(* String literals of the source.                                          *)
(***************************************************************************)

\* 'Fetching local models...'
MsgFetching ==
    <<"F", "e", "t", "c", "h", "i", "n", "g", " ", "l", "o", "c", "a", "l", " ", "m", "o", "d", "e", "l", "s", ".", ".", ".">>

\* 'Error: Could not connect to the backend.'
MsgConnectError ==
    <<"E", "r", "r", "o", "r", ":", " ", "C", "o", "u", "l", "d", " ", "n", "o", "t", " ", "c", "o", "n", "n", "e", "c", "t", " ", "t", "o", " ", "t", "h", "e", " ", "b", "a", "c", "k", "e", "n", "d", ".">>

\* 'Error: Please enter or select a model name.'
MsgValidation ==
    <<"E", "r", "r", "o", "r", ":", " ", "P", "l", "e", "a", "s", "e", " ", "e", "n", "t", "e", "r", " ", "o", "r", " ", "s", "e", "l", "e", "c", "t", " ", "a", " ", "m", "o", "d", "e", "l", " ", "n", "a", "m", "e", ".">>

\* `Pulling model: ${modelToPull}... (This can take a while)`, before the name
PullingPrefix ==
    <<"P", "u", "l", "l", "i", "n", "g", " ", "m", "o", "d", "e", "l", ":", " ">>

\* the same template literal, after the name
PullingSuffix ==
    <<".", ".", ".", " ", "(", "T", "h", "i", "s", " ", "c", "a", "n", " ", "t", "a", "k", "e", " ", "a", " ", "w", "h", "i", "l", "e", ")">>

\* `Failed to pull model. Server responded with status ${response.status}`
PullFailedPrefix ==
    <<"F", "a", "i", "l", "e", "d", " ", "t", "o", " ", "p", "u", "l", "l", " ", "m", "o", "d", "e", "l", ".", " ", "S", "e", "r", "v", "e", "r", " ", "r", "e", "s", "p", "o", "n", "d", "e", "d", " ", "w", "i", "t", "h", " ", "s", "t", "a", "t", "u", "s", " ">>

\* `Success! Model '${modelToPull}' has been pulled.`, before the name
SuccessPrefix ==
    <<"S", "u", "c", "c", "e", "s", "s", "!", " ", "M", "o", "d", "e", "l", " ", "'">>

\* the same template literal, after the name
SuccessSuffix ==
    <<"'", " ", "h", "a", "s", " ", "b", "e", "e", "n", " ", "p", "u", "l", "l", "e", "d", ".">>

\* `Error: ${error.message}`, before the message
ErrorPrefix ==
    <<"E", "r", "r", "o", "r", ":", " ">>

\* the prefix statusClass looks for first
StrError ==
    <<"e", "r", "r", "o", "r">>

\* the prefix statusClass looks for second
StrSuccess ==
    <<"s", "u", "c", "c", "e", "s", "s">>

\* error.message of a fetch() the transport rejected
FailedToFetch ==
    <<"F", "a", "i", "l", "e", "d", " ", "t", "o", " ", "f", "e", "t", "c", "h">>

\* error.message of a body stream that broke
NetworkErrorMsg ==
    <<"n", "e", "t", "w", "o", "r", "k", " ", "e", "r", "r", "o", "r">>

\* the placeholder name of the input, typed by the user
Gemma2b ==
    <<"g", "e", "m", "m", "a", ":", "2", "b">>

\* the entries of discoverableModels
Llama3 ==
    <<"l", "l", "a", "m", "a", "3", ":", "8", "b">>

Gemma7b ==
    <<"g", "e", "m", "m", "a", ":", "7", "b">>

Phi3 ==
    <<"p", "h", "i", "3", ":", "l", "a", "t", "e", "s", "t">>

Mistral ==
    <<"m", "i", "s", "t", "r", "a", "l", ":", "l", "a", "t", "e", "s", "t">>

Codellama ==
    <<"c", "o", "d", "e", "l", "l", "a", "m", "a", ":", "7", "b">>

Llava ==
    <<"l", "l", "a", "v", "a", ":", "l", "a", "t", "e", "s", "t">>

Qwen ==
    <<"q", "w", "e", "n", ":", "7", "b">>

Mixtral ==
    <<"m", "i", "x", "t", "r", "a", "l", ":", "l", "a", "t", "e", "s", "t">>

\* The alphabets toLowerCase and the decimal conversion work over.

UpperAlpha ==
    <<"A", "B", "C", "D", "E", "F", "G", "H", "I", "J", "K", "L", "M", "N", "O", "P", "Q", "R", "S", "T", "U", "V", "W", "X", "Y", "Z">>

LowerAlpha ==
    <<"a", "b", "c", "d", "e", "f", "g", "h", "i", "j", "k", "l", "m", "n", "o", "p", "q", "r", "s", "t", "u", "v", "w", "x", "y", "z">>

Digits ==
    <<"0", "1", "2", "3", "4", "5", "6", "7", "8", "9">>

(***************************************************************************)
(* String functions of the platform, as the source uses them.              *)
(***************************************************************************)
\* The empty string ''.
EmptyString == <<>>

\* JavaScript truthiness of a string: every string but '' is truthy.
Truthy(s) == s # EmptyString

\* One character of String.prototype.toLowerCase.
LowerChar(c) ==
    IF \E k \in DOMAIN UpperAlpha : UpperAlpha[k] = c
    THEN LowerAlpha[CHOOSE k \in DOMAIN UpperAlpha : UpperAlpha[k] = c]
    ELSE c

\* String.prototype.toLowerCase.
toLowerCase(s) == [k \in DOMAIN s |-> LowerChar(s[k])]

\* String.prototype.startsWith.
startsWith(s, p) == Len(s) >= Len(p) /\ SubSeq(s, 1, Len(p)) = p

\* String.prototype.includes.
includes(s, p) ==
    \E k \in 1..(Len(s) - Len(p) + 1) : SubSeq(s, k, k + Len(p) - 1) = p

\* The decimal digits of a natural number: ${response.status} in a template.
RECURSIVE DecimalString(_)
DecimalString(n) ==
    IF n < 10 THEN <<Digits[n + 1]>>
    ELSE DecimalString(n \div 10) \o <<Digits[(n % 10) + 1]>>

\* Response.ok: the status is in the range 200-299.
ResponseOk(status) == status >= 200 /\ status <= 299

(***************************************************************************)
(* The data of the component.                                              *)
(***************************************************************************)
\* const discoverableModels = ref([...]).
discoverableModels ==
    <<Llama3, Gemma7b, Phi3, Mistral, Codellama, Llava, Qwen, Mixtral>>

\* The entries of discoverableModels whose button the model clicks.
ShownDiscoverable ==
    {discoverableModels[k] : k \in 1..MaxDiscoverable}

\* What the user can type into the input bound to newModelName.
TypedNames == {EmptyString, <<" ">>, Gemma2b, Llama3}

\* What the user types while callers other than the template call the
\* workflows.
CallTyped == {EmptyString, Gemma2b}

\* The arguments a caller other than the template calls addModel with.
CallTargets == {EmptyString, Gemma2b}

\* The entries the Gateway has to list: { name, digest, size, modified_at }.
Catalog ==
    { [name |-> Gemma2b, digest |-> "d1", size |-> 1000000000,
       modified_at |-> "2024-01-01T00:00:00Z"],
      [name |-> Llama3, digest |-> "d2", size |-> 2000000000,
       modified_at |-> "2024-02-01T00:00:00Z"] }

\* The values of the models field of a list response: no entry twice.
ModelLists ==
    { s \in UNION { [1..n -> Catalog] : n \in 0..MaxModels } :
        \A j, k \in DOMAIN s : j # k => s[j] # s[k] }

\* No parsed body (a filler for the records that carry one).
NoBody == [kind |-> "none", hasModels |-> FALSE, models |-> <<>>]

\* What response.json() resolves to: null, {} or { models: [...] }.
Bodies ==
    { [kind |-> "null", hasModels |-> FALSE, models |-> <<>>],
      [kind |-> "object", hasModels |-> FALSE, models |-> <<>>] }
    \cup { [kind |-> "object", hasModels |-> TRUE, models |-> l] : l \in ModelLists }

\* The HTTP statuses the Gateway answers with.
HttpStatuses == {200, 404, 500}

\* The values the 'theme' key of localStorage can hold; NoItem is null.
NoItem == "null"
StoredValues == {NoItem, "light", "dark", "system"}

VARIABLES
    theme,           \* theme.value
    stored,          \* localStorage's 'theme' item
    rootClass,       \* document.documentElement.className
    storageEnabled,  \* whether localStorage can be read and written
    mounted,         \* whether onMounted has run
    localModels,     \* localModels.value
    newModelName,    \* newModelName.value
    statusMessage,   \* statusMessage.value
    isLoading,       \* isLoading.value
    pullingModel,    \* pullingModel.value
    inst,            \* the outstanding invocations of the two workflows
    pre,             \* localModels when a workflow was last called
    ev               \* the last step taken

vars ==
    <<theme, stored, rootClass, storageEnabled, mounted, localModels,
      newModelName, statusMessage, isLoading, pullingModel, inst, pre, ev>>

themeVars == <<theme, stored, rootClass>>

(***************************************************************************)
(* An invocation of a workflow: where it waits (pc), the argument of       *)
(* addModel (target), the requests it has issued (gets, posts), the status *)
(* of the response to its pull request (status, 0 before there is one),    *)
(* whether the pull stream had ended when read() resolved (eos), and       *)
(* whether an invocation called after it has already exited (overtaken).   *)
(***************************************************************************)
NoInst ==
    [pc |-> "none", kind |-> "none", target |-> EmptyString,
     gets |-> 0, posts |-> 0, status |-> 0, eos |-> FALSE,
     overtaken |-> FALSE]

\* The outstanding invocations, in the order they were called.
Slots == DOMAIN inst

\* The sequence s without its i-th element.
Remove(s, i) == SubSeq(s, 1, i - 1) \o SubSeq(s, i + 1, Len(s))

\* The outstanding invocations once the i-th has exited: those called
\* before it have been overtaken.
Leave(i) ==
    Remove([j \in DOMAIN inst |->
               IF j < i THEN [inst[j] EXCEPT !.overtaken = TRUE] ELSE inst[j]], i)

(***************************************************************************)
(* The last step: what it was (op), how a workflow that exited in it ended *)
(* (outcome), the HTTP status that made it fail (status, or 0), the parsed *)
(* body of the list response (body) and the invocation that exited (who).  *)
(* For toggleTheme, outcome is the theme before the call and prior the     *)
(* theme before the call before it, when that was the step before; for     *)
(* onMounted, outcome is the color scheme the host prefers and prior the   *)
(* item found in storage.  For a fetchLocalModels called in the step right *)
(* after another invocation of it returned a list, last is the body that   *)
(* invocation parsed.  The ops are fetch_call, fetch_step and fetch_exit   *)
(* for the steps of fetchLocalModels, pull_call and pull_exit for the call *)
(* and the return of addModel, toggleTheme, mount and mount_threw.         *)
(***************************************************************************)
NoEv ==
    [op |-> "none", outcome |-> "none", status |-> 0, body |-> NoBody,
     who |-> NoInst, prior |-> "none", last |-> NoBody]

Event(op, outcome, body, who) ==
    [op |-> op, outcome |-> outcome, status |-> 0, body |-> body, who |-> who,
     prior |-> "none", last |-> NoBody]

\* Whether one more invocation fits the model.
Room == Len(inst) < MaxInst

\* A continuation that is queued as a microtask: addModel after
\* `await fetchLocalModels()` once fetchLocalModels has returned.
MicrotaskPending == \E i \in Slots : inst[i].pc = "pull_resume"

\* A task (a user event, a network event) runs when no microtask is queued.
Task == mounted /\ ~MicrotaskPending

Init ==
    /\ theme = "light"
    /\ rootClass = ""
    /\ storageEnabled \in BOOLEAN
    /\ stored \in (IF storageEnabled THEN StoredValues ELSE {NoItem})
    /\ mounted = FALSE
    /\ localModels = <<>>
    /\ newModelName = EmptyString
    /\ statusMessage = EmptyString
    /\ isLoading = FALSE
    /\ pullingModel = EmptyString
    /\ inst = <<>>
    /\ pre = <<>>
    /\ ev = NoEv

(***************************************************************************)
(* The theme switcher.                                                     *)
(***************************************************************************)
\* A variant of setTheme that does not write the item.
setThemeNotPersisted(newTheme) ==
    /\ theme' = newTheme
    /\ UNCHANGED stored
    /\ IF storageEnabled
       THEN rootClass' = newTheme
       ELSE UNCHANGED rootClass

\* setTheme: localStorage.setItem throws when storage is disabled, and the
\* class of the root element is then not set.
setTheme(newTheme) ==
    /\ theme' = newTheme
    /\ IF storageEnabled
       THEN stored' = newTheme /\ rootClass' = newTheme
       ELSE UNCHANGED <<stored, rootClass>>

\* The argument toggleTheme gives setTheme.
Toggled(t) == IF t = "dark" THEN "light" ELSE "dark"

\* @click="toggleTheme".
ToggleTheme ==
    /\ Task
    /\ setTheme(Toggled(theme))
    /\ ev' = [Event("toggleTheme", theme, NoBody, NoInst) EXCEPT
                 !.prior = IF ev.op = "toggleTheme" THEN ev.outcome ELSE "none"]
    /\ UNCHANGED <<storageEnabled, mounted, localModels, newModelName,
                   statusMessage, isLoading, pullingModel, inst, pre>>

(***************************************************************************)
(* fetchLocalModels.                                                       *)
(***************************************************************************)
\* const localModelNames = computed(...).
localModelNames == {localModels[k].name : k \in DOMAIN localModels}

\* A variant of ModelsOrEmpty that returns the entries in reverse order.
ModelsReversed(data) ==
    IF data.hasModels
    THEN [k \in DOMAIN data.models |-> data.models[Len(data.models) + 1 - k]]
    ELSE <<>>

\* data.models || []  (data is an object here).
ModelsOrEmpty(data) == IF data.hasModels THEN data.models ELSE <<>>

\* Lines 35-36, up to the fetch of the list.
FetchBegin ==
    /\ statusMessage' = MsgFetching
    /\ isLoading' = TRUE

\* A variant of FetchTry that keeps a list once one is on display.
FetchTryFirstWins(data) ==
    /\ localModels' = IF localModels = <<>> THEN ModelsOrEmpty(data)
                      ELSE localModels
    /\ statusMessage' = EmptyString

\* A variant of FetchTry that appends the entries to the list on display.
FetchTryAppends(data) ==
    /\ localModels' = localModels \o ModelsOrEmpty(data)
    /\ statusMessage' = EmptyString

\* Lines 41-42: the try block after response.json() has resolved.
FetchTry(data) ==
    /\ localModels' = ModelsOrEmpty(data)
    /\ statusMessage' = EmptyString

\* A variant of FetchCatch that also empties the list.
FetchCatchClears ==
    /\ statusMessage' = MsgConnectError
    /\ localModels' = <<>>

\* Lines 43-45: the catch block.
FetchCatch ==
    /\ statusMessage' = MsgConnectError
    /\ UNCHANGED localModels

\* A variant of FetchFinally that leaves isLoading as it is.
FetchFinallySkipped == UNCHANGED isLoading

\* Lines 46-48: the finally block.
FetchFinally == isLoading' = FALSE

\* The invocation in slot i after its fetchLocalModels has returned: a
\* call of the template or of onMounted is over; addModel, which awaits
\* it, resumes in a microtask.
AfterFetch(i) ==
    IF inst[i].kind = "fetch" THEN Leave(i)
    ELSE [inst EXCEPT ![i].pc = "pull_resume"]

\* A variant of FetchFails that issues the list request again.
FetchFailsRetries(i, outcome, status) ==
    /\ inst' = [inst EXCEPT ![i].pc = "list_wait", ![i].gets = inst[i].gets + 1]
    /\ ev' = NoEv
    /\ UNCHANGED <<themeVars, storageEnabled, mounted, localModels,
                   newModelName, statusMessage, isLoading, pullingModel, pre>>

\* fetchLocalModels throws or its fetch rejects: catch, then finally.
FetchFails(i, outcome, status) ==
    /\ FetchCatch
    /\ FetchFinally
    /\ inst' = AfterFetch(i)
    /\ ev' = [Event("fetch_exit", outcome, NoBody, inst[i]) EXCEPT !.status = status]
    /\ UNCHANGED <<themeVars, storageEnabled, mounted, newModelName,
                   pullingModel, pre>>

\* A call of fetchLocalModels from the template or from onMounted.
fetchLocalModels ==
    /\ Room
    /\ FetchBegin
    /\ inst' = Append(inst, [NoInst EXCEPT !.pc = "list_wait",
                                           !.kind = "fetch", !.gets = 1])
    /\ pre' = localModels
    /\ UNCHANGED <<localModels, newModelName, pullingModel>>

\* await fetch('/modelmanager/api/models') settles: the transport rejects
\* it, or a response with a status arrives.
ListResponse(i) ==
    /\ Task
    /\ inst[i].pc = "list_wait"
    /\ \/ FetchFails(i, "transport", 0)
       \/ \E r \in HttpStatuses :
            IF ~ResponseOk(r) THEN FetchFails(i, "http", r)
            ELSE /\ inst' = [inst EXCEPT ![i].pc = "json_wait"]
                 /\ ev' = [Event("fetch_step", "none", NoBody, NoInst) EXCEPT
                              !.last = ev.last]
                 /\ UNCHANGED <<themeVars, storageEnabled, mounted, localModels,
                                newModelName, statusMessage, isLoading,
                                pullingModel, pre>>

\* await response.json() settles: the body does not parse, or it parses to
\* null (data.models then throws), or to an object.
JsonResult(i) ==
    /\ Task
    /\ inst[i].pc = "json_wait"
    /\ \/ FetchFails(i, "parse", 0)
       \/ \E data \in Bodies :
            IF data.kind = "null" THEN FetchFails(i, "typeerror", 0)
            ELSE /\ FetchTry(data)
                 /\ FetchFinally
                 /\ inst' = AfterFetch(i)
                 /\ ev' = [Event("fetch_exit", "ok", data, inst[i]) EXCEPT
                              !.last = ev.last]
                 /\ UNCHANGED <<themeVars, storageEnabled, mounted,
                                newModelName, pullingModel, pre>>

(***************************************************************************)
(* addModel.                                                               *)
(***************************************************************************)
\* `Pulling model: ${modelToPull}... (This can take a while)`.
PullingMessage(modelToPull) == PullingPrefix \o modelToPull \o PullingSuffix

\* `Success! Model '${modelToPull}' has been pulled.`.
SuccessMessage(modelToPull) == SuccessPrefix \o modelToPull \o SuccessSuffix

\* A variant of PullFailedMessage that leaves the status out.
PullFailedMessageNoStatus(status) == PullFailedPrefix

\* `Failed to pull model. Server responded with status ${response.status}`.
PullFailedMessage(status) == PullFailedPrefix \o DecimalString(status)

\* Lines 56-58, up to the fetch of the pull.
PullBegin(modelToPull) ==
    /\ statusMessage' = PullingMessage(modelToPull)
    /\ isLoading' = TRUE
    /\ pullingModel' = modelToPull

\* A variant of PullTry that leaves the input as it is.
PullTryKeepsName(modelToPull) ==
    /\ UNCHANGED newModelName
    /\ FetchBegin

\* Lines 70-72, up to the await: the success message of line 70 is
\* overwritten by line 35 of fetchLocalModels, called in the same step.
PullTry(modelToPull) ==
    /\ newModelName' = EmptyString
    /\ FetchBegin

\* Lines 73-75: the catch block.
PullCatch(message) == statusMessage' = ErrorPrefix \o message

\* A variant of PullFinally that does not reset pullingModel.
PullFinallyKeepsTarget ==
    /\ isLoading' = FALSE
    /\ UNCHANGED pullingModel

\* Lines 76-79: the finally block.
PullFinally ==
    /\ isLoading' = FALSE
    /\ pullingModel' = EmptyString

\* A variant of PullFails that goes on to refresh the list.
PullFailsRefreshes(i, outcome, status, message) ==
    /\ PullCatch(message)
    /\ inst' = [inst EXCEPT ![i].pc = "list_wait", ![i].gets = inst[i].gets + 1]
    /\ isLoading' = TRUE
    /\ ev' = NoEv
    /\ UNCHANGED <<themeVars, storageEnabled, mounted, localModels,
                   newModelName, pullingModel, pre>>

\* A variant of PullFails that also empties the input.
PullFailsClearsName(i, outcome, status, message) ==
    /\ PullCatch(message)
    /\ PullFinally
    /\ newModelName' = EmptyString
    /\ inst' = Leave(i)
    /\ ev' = [Event("pull_exit", outcome, NoBody, inst[i]) EXCEPT !.status = status]
    /\ UNCHANGED <<themeVars, storageEnabled, mounted, localModels, pre>>

\* The fetch of the pull rejects, or line 66 or read() throws: catch, then
\* finally.
PullFails(i, outcome, status, message) ==
    /\ PullCatch(message)
    /\ PullFinally
    /\ inst' = Leave(i)
    /\ ev' = [Event("pull_exit", outcome, NoBody, inst[i]) EXCEPT !.status = status]
    /\ UNCHANGED <<themeVars, storageEnabled, mounted, localModels,
                   newModelName, pre>>

\* A call addModel(modelToPull): lines 52-58.
addModel(modelToPull) ==
    IF ~Truthy(modelToPull)
    THEN /\ statusMessage' = MsgValidation
         /\ ev' = Event("pull_exit", "invalid", NoBody,
                        [NoInst EXCEPT !.kind = "pull", !.target = modelToPull])
         /\ pre' = localModels
         /\ UNCHANGED <<themeVars, storageEnabled, mounted, localModels,
                        newModelName, isLoading, pullingModel, inst>>
    ELSE /\ Room
         /\ PullBegin(modelToPull)
         /\ inst' = Append(inst, [NoInst EXCEPT !.pc = "pull_wait",
                                                !.kind = "pull",
                                                !.target = modelToPull,
                                                !.posts = 1])
         /\ pre' = localModels
         /\ ev' = Event("pull_call", "none", NoBody, NoInst)
         /\ UNCHANGED <<themeVars, storageEnabled, mounted, localModels,
                        newModelName>>

\* await fetch('/modelmanager/api/models/pull', ...) settles.
PullResponse(i) ==
    /\ Task
    /\ inst[i].pc = "pull_wait"
    /\ \/ PullFails(i, "transport", 0, FailedToFetch)
       \/ \E r \in HttpStatuses :
            IF ~ResponseOk(r) THEN PullFails(i, "http", r, PullFailedMessage(r))
            ELSE /\ inst' = [inst EXCEPT ![i].pc = "read_wait",
                                         ![i].status = r]
                 /\ ev' = NoEv
                 /\ UNCHANGED <<themeVars, storageEnabled, mounted, localModels,
                                newModelName, statusMessage, isLoading,
                                pullingModel, pre>>

\* await response.body.getReader().read() settles: the stream breaks, or
\* one read resolves, with done true (the stream has ended) or false (a
\* chunk has arrived); lines 70-72 then run up to the fetch of the list.
ReadResult(i) ==
    /\ Task
    /\ inst[i].pc = "read_wait"
    /\ \/ PullFails(i, "stream", 0, NetworkErrorMsg)
       \/ \E done \in BOOLEAN :
            /\ PullTry(inst[i].target)
            /\ inst' = [inst EXCEPT ![i].pc = "list_wait", ![i].eos = done,
                                    ![i].gets = inst[i].gets + 1]
            /\ ev' = NoEv
            /\ UNCHANGED <<themeVars, storageEnabled, mounted, localModels,
                           pullingModel, pre>>

\* addModel resumes after `await fetchLocalModels()`: the finally block.
\* The step before it is the return of that fetchLocalModels, whose outcome
\* and parsed body the exit of addModel is recorded with.
PullResume(i) ==
    /\ mounted
    /\ inst[i].pc = "pull_resume"
    /\ PullFinally
    /\ inst' = Leave(i)
    /\ ev' = Event("pull_exit", IF ev.outcome = "ok" THEN "done"
                                ELSE "refresh_failed", ev.body, inst[i])
    /\ UNCHANGED <<themeVars, storageEnabled, mounted, localModels,
                   newModelName, statusMessage, pre>>

(***************************************************************************)
(* statusClass.                                                            *)
(***************************************************************************)
\* A variant of statusClass that looks for the words anywhere in the message.
statusClassAnywhere(message) ==
    IF ~Truthy(message) THEN ""
    ELSE LET lowerCaseMessage == toLowerCase(message)
         IN  IF includes(lowerCaseMessage, StrError) THEN "status-error"
             ELSE IF includes(lowerCaseMessage, StrSuccess) THEN "status-success"
             ELSE "status-info"

\* const statusClass = computed(...), of a value of statusMessage.
statusClass(message) ==
    IF ~Truthy(message) THEN ""
    ELSE LET lowerCaseMessage == toLowerCase(message)
         IN  IF startsWith(lowerCaseMessage, StrError) THEN "status-error"
             ELSE IF startsWith(lowerCaseMessage, StrSuccess) THEN "status-success"
             ELSE "status-info"

(***************************************************************************)
(* onMounted and the entry points of the template.                         *)
(***************************************************************************)
\* if (savedTheme): null and '' are falsy.
SavedTruthy(savedTheme) == savedTheme # NoItem /\ savedTheme # ""

\* The theme onMounted sets.
InitialTheme(savedTheme, prefersDark) ==
    IF SavedTruthy(savedTheme) THEN savedTheme
    ELSE IF prefersDark THEN "dark" ELSE "light"

\* onMounted: localStorage.getItem throws when storage is disabled, and the
\* hook then ends before it has set a theme or fetched the models.
Mount ==
    /\ ~mounted
    /\ mounted' = TRUE
    /\ UNCHANGED storageEnabled
    /\ \E prefersDark \in BOOLEAN :
         LET prefers == IF prefersDark THEN "prefers-dark" ELSE "prefers-light"
         IN  IF storageEnabled
             THEN /\ setTheme(InitialTheme(stored, prefersDark))
                  /\ fetchLocalModels
                  /\ ev' = [Event("mount", prefers, NoBody, NoInst) EXCEPT
                               !.prior = stored]
             ELSE /\ ev' = [Event("mount_threw", prefers, NoBody, NoInst) EXCEPT
                               !.prior = stored]
                  /\ UNCHANGED <<themeVars, localModels, newModelName,
                                 statusMessage, isLoading, pullingModel, inst,
                                 pre>>

\* :disabled="isLoading" of the input.
InputEnabled == ~isLoading

\* A variant of SubmitEnabled that does not look at the input.
SubmitIgnoresName == ~isLoading

\* :disabled="isLoading || !newModelName" of the submit button.
SubmitEnabled == ~(isLoading \/ ~Truthy(newModelName))

\* A variant of PullButtonEnabled that does not look at the installed names.
PullButtonIgnoresInstalled(model) == ~isLoading

\* :disabled="isLoading || localModelNames.has(model)" of a pull button.
PullButtonEnabled(model) == ~(isLoading \/ model \in localModelNames)

\* The v-if / v-else-if / v-else chain inside a pull button: what the
\* button of a discoverable model shows.
PullButtonLabel(model) ==
    IF isLoading /\ pullingModel = model THEN "spinner"
    ELSE IF model \in localModelNames THEN "installed"
    ELSE "pull"

\* A variant of RefreshEnabled: a refresh button that is never disabled.
RefreshAlwaysEnabled == TRUE

\* :disabled="isLoading" of the refresh button.
RefreshEnabled == ~isLoading

\* v-model="newModelName": the user edits the input.
Input(s) ==
    /\ Task
    /\ InputEnabled
    /\ s # newModelName
    /\ newModelName' = s
    /\ ev' = NoEv
    /\ UNCHANGED <<themeVars, storageEnabled, mounted, localModels,
                   statusMessage, isLoading, pullingModel, inst, pre>>

\* @click="fetchLocalModels" of the refresh button.
ClickRefresh ==
    /\ Task
    /\ RefreshEnabled
    /\ fetchLocalModels
    /\ ev' = [Event("fetch_call", "none", NoBody, NoInst) EXCEPT
                 !.last = IF ev.op = "fetch_exit" /\ ev.outcome = "ok"
                          THEN ev.body ELSE NoBody]
    /\ UNCHANGED <<themeVars, storageEnabled, mounted>>

\* @submit.prevent="addModel(newModelName)".
Submit ==
    /\ Task
    /\ SubmitEnabled
    /\ addModel(newModelName)

\* @click="addModel(model)" of the button of a discoverable model.
ClickPull(model) ==
    /\ Task
    /\ PullButtonEnabled(model)
    /\ addModel(model)

\* fetchLocalModels called by a caller that does not look at isLoading.
CallFetchLocalModels ==
    /\ Task
    /\ fetchLocalModels
    /\ ev' = Event("fetch_call", "none", NoBody, NoInst)
    /\ UNCHANGED <<themeVars, storageEnabled, mounted>>

\* addModel called by a caller that does not look at isLoading, with any
\* argument.
CallAddModel(modelToPull) ==
    /\ Task
    /\ addModel(modelToPull)

\* The steps of the Gateway and of the event loop.
Settle ==
    \E i \in Slots :
        \/ ListResponse(i)
        \/ JsonResult(i)
        \/ PullResponse(i)
        \/ ReadResult(i)
        \/ PullResume(i)

\* The component as the template drives it.
NextUI ==
    \/ Mount
    \/ ToggleTheme
    \/ \E s \in TypedNames : Input(s)
    \/ ClickRefresh
    \/ Submit
    \/ \E m \in ShownDiscoverable : ClickPull(m)
    \/ Settle

Spec == Init /\ [][NextUI]_vars

\* The same, with every issued request eventually answered or failed and
\* every queued continuation eventually run.
SpecLive == Spec /\ WF_vars(Settle)

\* The workflows as functions any caller may call, whatever isLoading is and
\* with any argument, while the user edits the input; nothing is persisted
\* when the page loads.
InitCalls == Init /\ storageEnabled /\ stored = NoItem

NextCalls ==
    \/ Mount
    \/ \E s \in CallTyped : Input(s)
    \/ CallFetchLocalModels
    \/ \E t \in CallTargets : CallAddModel(t)
    \/ Settle

SpecCalls == InitCalls /\ [][NextCalls]_vars

(***************************************************************************)
(* What the properties below speak of.                                     *)
(***************************************************************************)
\* An invocation with a Gateway request that has not completed or failed.
RequestOutstanding(r) ==
    r.pc \in {"list_wait", "json_wait", "pull_wait", "read_wait"}

\* The invocations with a Gateway request outstanding.
Outstanding == {i \in Slots : RequestOutstanding(inst[i])}

\* A string that is empty or holds nothing but spaces.
IsBlank(s) == \A k \in DOMAIN s : s[k] = " "

\* The sequence of entries a parsed list response carries.
Returned(body) == IF body.hasModels THEN body.models ELSE <<>>

\* fetchLocalModels has just returned / addModel has just returned.
FetchExited == ev.op = "fetch_exit"
PullExited == ev.op = "pull_exit"

(***************************************************************************)
(* C1. Whenever fetchLocalModels completes against a list call that        *)
(* succeeded with N entries, localModels holds exactly those N entries in  *)
(* the order returned (none when the response has no models field) and     *)
(* statusMessage is empty.                                                 *)
(***************************************************************************)
C1_FetchSuccessReplacesModels ==
    (FetchExited /\ ev.outcome = "ok") =>
        /\ Len(localModels) = Len(Returned(ev.body))
        /\ \A k \in DOMAIN localModels : localModels[k] = Returned(ev.body)[k]
        /\ statusMessage = EmptyString

\* A fetch has completed with a list of two entries that replaced another.
C1_Witness ==
    /\ FetchExited
    /\ ev.outcome = "ok"
    /\ Len(Returned(ev.body)) >= 2
    /\ pre # localModels

(***************************************************************************)
(* C2. Whenever the list call of fetchLocalModels fails (the transport     *)
(* rejects it, the status is not 2xx, or the body does not parse),         *)
(* localModels after the workflow is what it was before the workflow, and  *)
(* statusMessage is the error message 'Could not connect to the backend.'. *)
(***************************************************************************)
C2_FetchFailureKeepsModels ==
    (FetchExited /\ ev.outcome \in {"transport", "http", "parse", "typeerror"}) =>
        /\ localModels = pre
        /\ statusMessage = MsgConnectError
        /\ statusClass(statusMessage) = "status-error"

\* A fetch has failed on a non-2xx status while a list was on display.
C2_Witness ==
    /\ FetchExited
    /\ ev.outcome = "http"
    /\ ev.who.kind = "fetch"
    /\ localModels # <<>>

(***************************************************************************)
(* C3. addModel called with an empty or whitespace-only target never       *)
(* issues a Gateway request (no POST pull, no GET list) and sets           *)
(* statusMessage to the error 'Please enter or select a model name.'.      *)
(***************************************************************************)
C3_BlankTargetNeverReachesGateway ==
    /\ \A i \in Slots :
         (inst[i].kind = "pull" /\ IsBlank(inst[i].target)) =>
             inst[i].gets = 0 /\ inst[i].posts = 0
    /\ (PullExited /\ IsBlank(ev.who.target)) =>
         /\ ev.outcome = "invalid"
         /\ ev.who.gets = 0 /\ ev.who.posts = 0
         /\ statusMessage = MsgValidation

(***************************************************************************)
(* C4. When addModel is called with a non-empty target, the pull succeeds  *)
(* and the refresh after it succeeds, then as addModel exits the status is *)
(* the success message "Model '<target>' has been pulled.", localModels is *)
(* the refreshed list, isLoading is false and pullingModel is empty.       *)
(***************************************************************************)
C4_PullSuccessEndsWithSuccessStatus ==
    (PullExited /\ ev.outcome = "done") =>
        /\ statusMessage = SuccessMessage(ev.who.target)
        /\ statusClass(statusMessage) = "status-success"
        /\ localModels = Returned(ev.body)
        /\ ~isLoading
        /\ pullingModel = EmptyString

(***************************************************************************)
(* C5. When the Gateway answers the pull with a non-2xx status, or the     *)
(* transport fails, addModel ends with an error status whose text holds    *)
(* the HTTP status code (in the non-2xx case), localModels is unchanged    *)
(* and that invocation has issued no list request.                         *)
(***************************************************************************)
C5_PullFailureNoRefresh ==
    (PullExited /\ ev.outcome \in {"http", "transport", "stream"}) =>
        /\ statusClass(statusMessage) = "status-error"
        /\ ev.outcome = "http" => includes(statusMessage, DecimalString(ev.status))
        /\ localModels = pre
        /\ ev.who.gets = 0

\* A pull has been answered with 500 while a list was on display.
C5_Witness ==
    /\ PullExited
    /\ ev.outcome = "http"
    /\ ev.status = 500
    /\ localModels # <<>>

(***************************************************************************)
(* C6, as claimed. On every exit of addModel (the pull succeeded, the pull *)
(* failed, the refresh inside it failed, or validation rejected the        *)
(* target), isLoading is false and pullingModel is the empty string.       *)
(***************************************************************************)
C6_EveryExitClears ==
    PullExited => (~isLoading /\ pullingModel = EmptyString)

(***************************************************************************)
(* C6, amended. Every exit of addModel that passed validation leaves       *)
(* isLoading false and pullingModel empty; a call that validation rejects  *)
(* returns before the try block and leaves both as they were.              *)
(***************************************************************************)
C6_ExitClearsUnlessRejected ==
    [][ PullExited' =>
          IF ev'.outcome = "invalid"
          THEN UNCHANGED <<isLoading, pullingModel>>
          ELSE ~isLoading' /\ pullingModel' = EmptyString ]_vars

\* A call was rejected while a pull was outstanding.
C6_Witness ==
    /\ PullExited
    /\ ev.outcome = "invalid"
    /\ isLoading
    /\ pullingModel # EmptyString

(***************************************************************************)
(* C7. On every exit of fetchLocalModels, whether the list call succeeded, *)
(* was answered with a non-2xx status or raised, isLoading is false.       *)
(***************************************************************************)
C7_FetchExitClearsLoading == FetchExited => ~isLoading

\* A fetch whose request the transport rejected has exited.
C7_Witness == FetchExited /\ ev.outcome = "transport" /\ ~isLoading

(***************************************************************************)
(* C8. In every reachable state, if pullingModel is not empty then         *)
(* isLoading is true, also between the end of the refresh inside a         *)
(* successful pull and the cleanup of the pull itself.                     *)
(***************************************************************************)
C8_PullingImpliesLoading == pullingModel # EmptyString => isLoading

(***************************************************************************)
(* C9. With workflows started only by the entry points of the template     *)
(* (mount, the refresh button, submit, the button of a discoverable        *)
(* model), at most one Gateway request is outstanding in every reachable   *)
(* state, and no workflow is started while another has not exited.         *)
(***************************************************************************)
C9_OneWorkflowAtATime ==
    /\ Cardinality(Outstanding) <= 1
    /\ Len(inst) <= 1

\* The refresh inside a pull is outstanding: the one request of the one
\* workflow, with every entry point disabled.
C9_Witness ==
    /\ Len(inst) = 1
    /\ inst[1].kind = "pull"
    /\ inst[1].pc = "list_wait"
    /\ ~RefreshEnabled /\ ~SubmitEnabled /\ ~InputEnabled

(***************************************************************************)
(* C10, as claimed. In every reachable state isLoading is true if and only *)
(* if a fetch or pull call issued by a workflow is outstanding, also when  *)
(* a second invocation was started while the first was outstanding.        *)
(***************************************************************************)
C10_LoadingIffOutstanding == isLoading <=> (Outstanding # {})

(***************************************************************************)
(* C10, amended. In every reachable state, isLoading is true only if a     *)
(* call is outstanding; and as long as no invocation is started while      *)
(* another is outstanding, isLoading is true if and only if a call is      *)
(* outstanding.                                                            *)
(***************************************************************************)
C10_LoadingOnlyIfOutstanding ==
    /\ [](isLoading => Outstanding # {})
    /\ [][ (Len(inst) <= 1 /\ C10_LoadingIffOutstanding /\ Len(inst') <= 1)
             => C10_LoadingIffOutstanding' ]_vars

\* Two invocations are outstanding and isLoading is true.
C10_Witness == isLoading /\ Cardinality(Outstanding) = 2

(***************************************************************************)
(* C11. In addModel the success status is set, the input is cleared and    *)
(* the refresh is started only after the pull response stream has reached  *)
(* end-of-stream: an invocation that is past the read has seen the stream  *)
(* end.                                                                    *)
(***************************************************************************)
C11_ProceedsOnlyAtEndOfStream ==
    \A i \in Slots :
        (inst[i].kind = "pull"
            /\ inst[i].pc \in {"list_wait", "json_wait", "pull_resume"})
        => inst[i].eos

(***************************************************************************)
(* C12. On a successful pull newModelName is cleared exactly when it       *)
(* equals the pulled target; when the target differs from newModelName (a  *)
(* pull from the discoverable list while text is typed in the input),      *)
(* newModelName is left unchanged.                                         *)
(***************************************************************************)
C12_ClearsOnlyOwnName ==
    [][ \A i \in DOMAIN inst :
          (inst[i].pc = "read_wait" /\ i \in DOMAIN inst'
              /\ inst'[i].pc = "list_wait")
          => newModelName' = IF newModelName = inst[i].target THEN EmptyString
                             ELSE newModelName ]_vars

(***************************************************************************)
(* C13. When two invocations are outstanding at the same time, shared      *)
(* state ends as written by the invocation whose Gateway call completes    *)
(* last, whatever the order they were called in: when an invocation exits  *)
(* after one called later has exited, statusMessage is the message of its  *)
(* own outcome and localModels is the list it received.                    *)
(***************************************************************************)
C13_LastToCompleteWins ==
    ((FetchExited \/ PullExited) /\ ev.who.overtaken) =>
        /\ ev.outcome \in {"ok", "done"} =>
              localModels = Returned(ev.body) /\ statusMessage = EmptyString
        /\ ev.outcome \in {"parse", "typeerror", "refresh_failed"} =>
              statusMessage = MsgConnectError
        /\ (FetchExited /\ ev.outcome \in {"transport", "http"}) =>
              statusMessage = MsgConnectError
        /\ (PullExited /\ ev.outcome = "http") =>
              statusMessage = ErrorPrefix \o PullFailedMessage(ev.status)
        /\ (PullExited /\ ev.outcome = "transport") =>
              statusMessage = ErrorPrefix \o FailedToFetch
        /\ (PullExited /\ ev.outcome = "stream") =>
              statusMessage = ErrorPrefix \o NetworkErrorMsg

\* The invocation called first has completed last, with a list that is
\* now on display, and nothing is outstanding.
C13_Witness ==
    /\ FetchExited
    /\ ev.who.overtaken
    /\ ev.outcome = "ok"
    /\ inst = <<>>
    /\ Len(localModels) >= 2

(***************************************************************************)
(* C14. No failure is retried: one invocation of fetchLocalModels issues   *)
(* exactly one list request, and one invocation of addModel issues at most *)
(* one pull request and at most one list request, whatever the outcomes.   *)
(***************************************************************************)
C14_NoRetry ==
    /\ \A i \in Slots :
         /\ inst[i].kind = "fetch" => inst[i].gets = 1 /\ inst[i].posts = 0
         /\ inst[i].kind = "pull" => inst[i].posts = 1 /\ inst[i].gets <= 1
    /\ (FetchExited /\ ev.who.kind = "fetch") =>
         ev.who.gets = 1 /\ ev.who.posts = 0
    /\ PullExited => ev.who.posts <= 1 /\ ev.who.gets <= 1

\* A pull whose refresh failed has exited with one request of each kind.
C14_Witness ==
    /\ PullExited
    /\ ev.outcome = "refresh_failed"
    /\ ev.who.gets = 1
    /\ ev.who.posts = 1

(***************************************************************************)
(* C15. If every issued Gateway request eventually completes or fails,     *)
(* every started workflow eventually exits and isLoading eventually        *)
(* becomes false, so that the entry points of the template are enabled     *)
(* again after any error.                                                  *)
(***************************************************************************)
C15_WorkflowsExit ==
    /\ (inst # <<>>) ~> (inst = <<>> /\ ~isLoading /\ RefreshEnabled /\ InputEnabled)
    /\ isLoading ~> ~isLoading

\* A fetch answered with a non-2xx status has exited and the refresh
\* button is enabled again.
C15_Witness ==
    /\ FetchExited
    /\ ev.outcome = "http"
    /\ inst = <<>>
    /\ RefreshEnabled

(***************************************************************************)
(* C16. In every reachable state localModels is the initial empty sequence *)
(* or the complete list of some successful list response (empty when the   *)
(* response had no models field): it changes only in the step in which a   *)
(* fetch completes successfully, to the whole list of that response, and   *)
(* is never reset by a failed fetch or a failed pull.                      *)
(***************************************************************************)
C16_ModelsOnlyFromSuccessfulResponse ==
    /\ [](\/ localModels = <<>>
          \/ \E b \in Bodies : b.kind = "object" /\ localModels = Returned(b))
    /\ [][ localModels' # localModels =>
             /\ FetchExited'
             /\ ev'.outcome = "ok"
             /\ localModels' = Returned(ev'.body) ]_vars

\* A list of one entry has replaced a list of two entries.
C16_Witness ==
    /\ FetchExited
    /\ ev.outcome = "ok"
    /\ Len(localModels) = 1
    /\ Len(pre) = 2

(***************************************************************************)
(* What the properties of the theme speak of.                              *)
(***************************************************************************)
\* toggleTheme has just been called, right after another call of it.
ToggledTwice == ev.op = "toggleTheme" /\ ev.prior # "none"

\* onMounted has just run.
Loaded == ev.op \in {"mount", "mount_threw"}

(***************************************************************************)
(* C17. For every theme that can be active after the initial load, a       *)
(* persisted value read from storage included, calling toggleTheme twice   *)
(* leaves the in-memory theme equal to its value before the two calls and  *)
(* the persisted 'theme' item equal to that same value.                    *)
(***************************************************************************)
C17_ToggleTwiceRestores ==
    ToggledTwice => (theme = ev.prior /\ stored = ev.prior)

(***************************************************************************)
(* C18. On initial load the active theme is the persisted theme when one   *)
(* exists; when none is persisted it is 'dark' if the host prefers a dark  *)
(* color scheme and 'light' otherwise.                                     *)
(***************************************************************************)
C18_InitialTheme ==
    Loaded =>
        theme = IF ev.prior # NoItem THEN ev.prior
                ELSE IF ev.outcome = "prefers-dark" THEN "dark" ELSE "light"

(***************************************************************************)
(* C19. If writing or reading the persisted theme fails (storage           *)
(* disabled), the error is swallowed: toggleTheme still flips the          *)
(* in-memory theme and applies the new value to the class of the root      *)
(* element, and the initial load still goes on to start the model fetch.   *)
(***************************************************************************)
C19_StorageFailureSwallowed ==
    /\ ev.op = "toggleTheme" =>
         theme = Toggled(ev.outcome) /\ rootClass = theme
    /\ Loaded =>
         \E i \in Slots : inst[i].kind = "fetch" /\ inst[i].pc = "list_wait"

(***************************************************************************)
(* C20. Running fetchLocalModels twice in a row, with no other workflow in *)
(* between and the Gateway returning the same list both times, leaves      *)
(* localModels with the same content after the second run as after the     *)
(* first (pre, the list on display when the second run was called), and    *)
(* statusMessage empty and isLoading false after each run.                 *)
(***************************************************************************)
SecondRunSameList ==
    /\ FetchExited
    /\ ev.outcome = "ok"
    /\ ev.last.kind = "object"
    /\ Returned(ev.last) = Returned(ev.body)

C20_FetchIdempotent ==
    /\ SecondRunSameList => localModels = pre
    /\ (FetchExited /\ ev.outcome = "ok") =>
         statusMessage = EmptyString /\ ~isLoading

C20_Witness ==
    /\ SecondRunSameList
    /\ Len(Returned(ev.body)) = 2
    /\ localModels = Returned(ev.body)

(***************************************************************************)
(* What the properties of the nested refresh speak of.                     *)
(***************************************************************************)
\* The invocations of addModel that have not returned.
Pulls == {i \in Slots : inst[i].kind = "pull"}

\* addModel has just returned, from an invocation that had issued its pull
\* request.
PullRequestExited == PullExited /\ ev.outcome # "invalid"

\* A list request is issued by an invocation of addModel at most once, and
\* only by one whose pull request was answered with a success status; and
\* an invocation that has issued it returns in the step right after its
\* fetchLocalModels has returned.
RefreshAfterPull ==
    /\ [](\A i \in Pulls :
            /\ inst[i].gets <= 1
            /\ inst[i].gets = 1 =>
                 /\ ResponseOk(inst[i].status)
                 /\ inst[i].pc \in {"list_wait", "json_wait", "pull_resume"})
    /\ [](PullRequestExited /\ ev.who.gets = 1 => ev.who.pc = "pull_resume")
    /\ [][ (PullRequestExited' /\ ev'.who.gets = 1) =>
             /\ FetchExited
             /\ ev.who.kind = "pull"
             /\ ev.who.target = ev'.who.target ]_vars

(***************************************************************************)
(* C21, as stated. Within one addModel invocation the list refresh request *)
(* is issued only after the pull POST has returned a success status, it is *)
(* issued exactly once in that case, and the pull workflow does not exit   *)
(* before the nested refresh has completed or failed.                      *)
(***************************************************************************)
C21_RefreshOnceAfterPostSuccess ==
    /\ RefreshAfterPull
    /\ [](PullRequestExited =>
            ev.who.gets = IF ResponseOk(ev.who.status) THEN 1 ELSE 0)

(***************************************************************************)
(* C21, amended. The same, except that the refresh request is issued       *)
(* exactly once when the pull POST has returned a success status and the   *)
(* read of its body has resolved, and not at all when that read rejects.   *)
(***************************************************************************)
C21_RefreshOnceAfterPullSuccess ==
    /\ RefreshAfterPull
    /\ [](PullRequestExited =>
            ev.who.gets = IF ResponseOk(ev.who.status) /\ ev.outcome # "stream"
                          THEN 1 ELSE 0)

C21_Witness ==
    /\ PullRequestExited
    /\ ev.who.gets = 1
    /\ ev.outcome = "done"
    /\ Len(localModels) = 1

\* addModel has just returned after its pull succeeded and the
\* fetchLocalModels it awaited failed.
RefreshFailedExit == PullExited /\ ev.outcome = "refresh_failed"

(***************************************************************************)
(* C22. When the pull POST succeeds but the nested list refresh fails,     *)
(* addModel exits with statusMessage equal to the error message of         *)
(* fetchLocalModels (the success message is overwritten, the catch of      *)
(* addModel is not taken), localModels unchanged, newModelName cleared,    *)
(* isLoading false and pullingModel empty.                                 *)
(***************************************************************************)
C22_RefreshFailureAfterPull ==
    RefreshFailedExit =>
        /\ statusMessage = MsgConnectError
        /\ statusClass(statusMessage) = "status-error"
        /\ localModels = pre
        /\ newModelName = EmptyString
        /\ ~isLoading
        /\ pullingModel = EmptyString

C22_Witness ==
    /\ RefreshFailedExit
    /\ ev.who.target = Gemma2b
    /\ ev.who.status = 200
    /\ Len(localModels) = 1

(***************************************************************************)
(* What the frame properties speak of.                                     *)
(***************************************************************************)
\* The step just taken was one of fetchLocalModels: its call from the
\* template, the arrival of its response, its return.
FetchStepped == ev.op \in {"fetch_call", "fetch_step", "fetch_exit"}

\* The step just taken was the call of an addModel that passed validation,
\* or the return of an addModel that failed on validation, on an HTTP
\* error or on a transport error of the pull.
FailedPullStepped ==
    \/ ev.op = "pull_call"
    \/ PullExited /\ ev.outcome \in {"invalid", "http", "transport"}

(***************************************************************************)
(* C23. fetchLocalModels never changes newModelName or pullingModel, and   *)
(* an addModel invocation that fails (validation, HTTP error or transport  *)
(* error on the pull) leaves newModelName and localModels unchanged, so    *)
(* the user can retry with the same typed name.                            *)
(***************************************************************************)
C23_Frame ==
    /\ [][ FetchStepped' => UNCHANGED <<newModelName, pullingModel>> ]_vars
    /\ [][ FailedPullStepped' => UNCHANGED <<newModelName, localModels>> ]_vars

C23_Witness ==
    /\ PullExited
    /\ ev.outcome = "http"
    /\ ev.who.target = Gemma2b
    /\ newModelName = Gemma2b
    /\ Len(localModels) = 1

(***************************************************************************)
(* What the properties of the discoverable list speak of.                  *)
(***************************************************************************)
\* Some entry of localModels has name m.
Installed(m) == \E k \in DOMAIN localModels : localModels[k].name = m

\* A pull of m can be started from the discoverable list only while
\* isLoading is false and no entry of localModels has name m.
PullStartsOnlyWhenAbsent ==
    \A m \in ShownDiscoverable :
        (ENABLED ClickPull(m)) => (~isLoading /\ ~Installed(m))

(***************************************************************************)
(* C24, as stated. A pull can be started from the discoverable list for    *)
(* model m only in a state where isLoading is false and no entry of        *)
(* localModels has name m; for every state, m is shown as installed        *)
(* exactly when some entry of the current localModels has name m.          *)
(***************************************************************************)
C24_InstalledShownIffPresent ==
    /\ PullStartsOnlyWhenAbsent
    /\ \A m \in ShownDiscoverable :
         PullButtonLabel(m) = "installed" <=> Installed(m)

(***************************************************************************)
(* C24, amended. The same, except that m is shown as installed exactly     *)
(* when some entry of localModels has name m and m is not the model a      *)
(* pull in progress is shown for (isLoading and pullingModel = m), for     *)
(* which the spinner is shown instead.                                     *)
(***************************************************************************)
C24_InstalledShownUnlessPulling ==
    /\ PullStartsOnlyWhenAbsent
    /\ \A m \in ShownDiscoverable :
         PullButtonLabel(m) = "installed" <=>
             (Installed(m) /\ ~(isLoading /\ pullingModel = m))

C24_Witness ==
    /\ PullExited
    /\ ev.outcome = "done"
    /\ ev.who.target = Llama3
    /\ Installed(Llama3)
    /\ PullButtonLabel(Llama3) = "installed"
    /\ ~ENABLED ClickPull(Llama3)

(***************************************************************************)
(* C25. Through the entry points of the template, addModel is never        *)
(* invoked with an empty target: the submit entry point is enabled only    *)
(* while isLoading is false and newModelName is non-empty, and the         *)
(* discoverable entries are fixed non-empty names, so the validation-error *)
(* status is unreachable from the events of the template.                  *)
(***************************************************************************)
C25_ValidationUnreachable ==
    /\ (ENABLED Submit) => (~isLoading /\ newModelName # EmptyString)
    /\ \A k \in DOMAIN discoverableModels : discoverableModels[k] # EmptyString
    /\ ev.op = "pull_call" => inst[Len(inst)].target # EmptyString
    /\ ~(PullExited /\ ev.outcome = "invalid")
    /\ statusMessage # MsgValidation

C25_Witness ==
    /\ ev.op = "pull_call"
    /\ inst[Len(inst)].target = Gemma2b
    /\ newModelName = Gemma2b
    /\ pullingModel = Gemma2b

(***************************************************************************)
(* What the property of the status kind speaks of.                         *)
(***************************************************************************)
\* Target names: those typed and clicked, and names that hold the words
\* statusClass looks for.
KindTargets ==
    (TypedNames \ {EmptyString})
        \cup {discoverableModels[k] : k \in DOMAIN discoverableModels}
        \cup {StrError, StrSuccess, <<"E", "R", "R", "O", "R">>}

\* The messages of the catch block of addModel.
PullErrorMessages ==
    {ErrorPrefix \o PullFailedMessage(r) : r \in HttpStatuses}
        \cup {ErrorPrefix \o FailedToFetch, ErrorPrefix \o NetworkErrorMsg}

\* The kind each message is written for.
IntendedKind(message) ==
    IF message = EmptyString THEN ""
    ELSE IF message \in {MsgConnectError, MsgValidation} \cup PullErrorMessages
         THEN "status-error"
    ELSE IF \E t \in KindTargets : message = SuccessMessage(t)
         THEN "status-success"
    ELSE IF message = MsgFetching \/ \E t \in KindTargets : message = PullingMessage(t)
         THEN "status-info"
    ELSE "unknown"

\* Every message the workflows write, for every target name.
WrittenMessages ==
    {EmptyString, MsgFetching, MsgConnectError, MsgValidation}
        \cup PullErrorMessages
        \cup {PullingMessage(t) : t \in KindTargets}
        \cup {SuccessMessage(t) : t \in KindTargets}

(***************************************************************************)
(* C26. The status kind derived by statusClass agrees with the kind the    *)
(* workflow intended, for every message the workflows can write and every  *)
(* target name: the fetching and pulling messages are info, the pulled     *)
(* message is success, the backend, validation and pull-failure messages   *)
(* are error, and an empty status has no kind.                             *)
(***************************************************************************)
C26_StatusKindAgrees ==
    /\ statusMessage \in WrittenMessages
    /\ statusClass(statusMessage) = IntendedKind(statusMessage)
    /\ \A m \in WrittenMessages : statusClass(m) = IntendedKind(m)

C26_Witness ==
    /\ PullExited
    /\ ev.outcome = "http"
    /\ ev.status = 500
    /\ statusMessage = ErrorPrefix \o PullFailedMessage(500)
    /\ statusClass(statusMessage) = "status-error"

(***************************************************************************)
(* What the property of the persisted theme speaks of.                     *)
(***************************************************************************)
\* onMounted has just run to its end: getItem did not throw.
LoadCompleted == ev.op = "mount"

\* toggleTheme has just run to its end: setItem did not throw.
ToggleCompleted == ev.op = "toggleTheme" /\ storageEnabled

(***************************************************************************)
(* C27. After the initial load has completed and after every completed     *)
(* toggleTheme, the persisted 'theme' value, the in-memory theme and the   *)
(* class of the document root are all equal; in particular the default     *)
(* derived from the color scheme the host prefers is itself persisted on   *)
(* the first load.                                                         *)
(***************************************************************************)
C27_ThemeInSync ==
    /\ (LoadCompleted \/ ToggleCompleted) =>
         (stored = theme /\ rootClass = theme)
    /\ (LoadCompleted /\ ev.prior = NoItem) =>
         stored = IF ev.outcome = "prefers-dark" THEN "dark" ELSE "light"
    /\ ToggleCompleted => stored = Toggled(ev.outcome)

C27_Witness ==
    /\ LoadCompleted
    /\ ev.prior = NoItem
    /\ ev.outcome = "prefers-dark"
    /\ stored = "dark"
    /\ theme = "dark"
    /\ rootClass = "dark"

=============================================================================
